---- MODULE Spec2Model ----
(***************************************************************************)
(* A model of wynncraft-waypoint-utils.py: one run of the script, from     *)
(* parser.parse_args() to json.dump().                                     *)
(*                                                                         *)
(* Numbers.  Coordinates are Python ints (unbounded, no overflow).  The    *)
(* script compares math.sqrt(sum of squares) with the radius and sorts on  *)
(* it.  The model keeps the integer sum of squares and a radius counted in *)
(* halves of a block (h stands for h/2): for h >= 0, sqrt(s) > h/2 exactly *)
(* when 4*s > h*h.  The float comparison agrees with that exact one on the *)
(* model's range: sqrt is correctly rounded and monotone, h/2 is a float,  *)
(* and for s # h*h/4 the two sides differ by far more than one ulp.        *)
(* Names are compared as Python compares str; the model uses naturals for  *)
(* names, ordered like the strings they stand for.                         *)
(***************************************************************************)
EXTENDS Integers, Sequences, FiniteSets, TLC

\* ---------------------------------------------------------------- bounds
MaxLen == 3            \* waypoints in an input file
MaxCoord == 1          \* coordinates are 0 .. MaxCoord
MaxName == 2           \* names are 1 .. MaxName
MaxRadiusHalves == 4   \* radii are 0, 1/2, ..., MaxRadiusHalves/2
MaxFiles == 2          \* files after --input

VARIABLES
    cmdline,      \* the command line: option |-> its token
    pending,      \* options of the command line parse_args has not consumed
    args,         \* the argparse namespace
    pc,           \* where the script is
    inputOpened,  \* input files opened by FileType('rt')
    inputRead,    \* input files json.load has read
    outputFile,   \* what the run has done to the output path
    outputWrites, \* json.dump calls on the output
    dumped,       \* what json.dump wrote
    waypoints,    \* the module-level list
    files,        \* history: the documents json.load returned, in order
    before        \* history: waypoints before the most recent pass

vars == <<cmdline, pending, args, pc, inputOpened, inputRead, outputFile,
          outputWrites, dumped, waypoints, files, before>>

\* ------------------------------------------------------------ data model
Coord == 0 .. MaxCoord
Names == 1 .. MaxName

\* Locations: the origin and the points of the three axes.
Location ==
    {l \in Coord \X Coord \X Coord : Cardinality({k \in 1 .. 3 : l[k] # 0}) <= 1}

\* A waypoint is a JSON object, here a record of the keys it has; location
\* is kept as the triple of its x, y, z values.
None == <<>>

Max(a, b) == IF a >= b THEN a ELSE b
Min(a, b) == IF a <= b THEN a ELSE b

\* ------------------------------------------------------- pure functions
\* waypoint['location'] raises KeyError when the key is missing.
HasLocation(waypoint) == "location" \in DOMAIN waypoint
HasName(waypoint) == "name" \in DOMAIN waypoint

waypoint_location_tuple(waypoint) == waypoint.location

\* The sum under math.sqrt in waypoint_distance.
waypoint_distance_sq(waypoint1, waypoint2) ==
    LET vector == [k \in 1 .. 3 |-> waypoint2[k] - waypoint1[k]]
    IN  vector[1] * vector[1] + vector[2] * vector[2] + vector[3] * vector[3]

\* Faulty variant: the boundary distance no longer matches.
DstGreaterOrEqual(sq, halves) == 4 * sq >= halves * halves

\* dst > radius, for dst = sqrt(sq) and radius = halves / 2.
DstGreater(sq, halves) == 4 * sq > halves * halves

\* Faulty variant: takes bound1 for the smaller corner.
waypoint_in_ordered_box(waypoint, bound1, bound2) ==
    \A k \in 1 .. 3 : bound1[k] <= waypoint[k] /\ waypoint[k] <= bound2[k]

waypoint_in_box(waypoint, bound1, bound2) ==
    \A k \in 1 .. 3 :
        /\ waypoint[k] <= Max(bound1[k], bound2[k])
        /\ waypoint[k] >= Min(bound1[k], bound2[k])

\* Faulty variant: an item goes before the items of equal key.
SortInsertBefore(perm, keys, k) ==
    LET pos == Cardinality({m \in 1 .. Len(perm) : keys[perm[m]] < keys[k]})
    IN  SubSeq(perm, 1, pos) \o <<k>> \o SubSeq(perm, pos + 1, Len(perm))

\* list.sort(key=...): the keys are computed first, then the items are
\* ordered by key, an item going after the items whose key is not greater
\* (a stable sort).  perm is the order built so far, as indices into keys.
SortInsert(perm, keys, k) ==
    LET pos == Cardinality({m \in 1 .. Len(perm) : keys[perm[m]] <= keys[k]})
    IN  SubSeq(perm, 1, pos) \o <<k>> \o SubSeq(perm, pos + 1, Len(perm))

RECURSIVE SortPerm(_, _)
SortPerm(keys, n) ==
    IF n = 0 THEN <<>> ELSE SortInsert(SortPerm(keys, n - 1), keys, n)

list_sort(items, keys) ==
    LET perm == SortPerm(keys, Len(items))
    IN  [m \in 1 .. Len(items) |-> items[perm[m]]]

reversed(items) == [m \in 1 .. Len(items) |-> items[Len(items) + 1 - m]]

\* Faulty variant: looks at the next waypoint only.
ScanOnlyNext(location, others, j, radius) ==
    /\ j <= Len(others)
    /\ ~DstGreater(waypoint_distance_sq(location,
                       waypoint_location_tuple(others[j])), radius)

\* The inner loop of the radius pass: does one of others[j ..] lie within
\* radius of location?  It stops at the first that does.
RECURSIVE ScanOthers(_, _, _, _)
ScanOthers(location, others, j, radius) ==
    IF j > Len(others) THEN FALSE
    ELSE LET other_location == waypoint_location_tuple(others[j])
             dst == waypoint_distance_sq(location, other_location)
         IN  IF DstGreater(dst, radius)
             THEN ScanOthers(location, others, j + 1, radius)
             ELSE TRUE

\* Faulty variant: enumerate from 0, so that a waypoint is among its own others.
RECURSIVE FilterLoopFromItself(_, _, _, _)
FilterLoopFromItself(wps, i, radius, acc) ==
    IF i > Len(wps) THEN acc
    ELSE LET match_found ==
                 ScanOthers(waypoint_location_tuple(wps[i]),
                            SubSeq(wps, i, Len(wps)), 1, radius)
         IN  FilterLoopFromItself(wps, i + 1, radius,
                 IF match_found
                 THEN [acc EXCEPT !.matches = @ + 1]
                 ELSE [acc EXCEPT !.filtered_waypoints = Append(@, wps[i])])

\* The outer loop, from index i on: filtered_waypoints and matches.
RECURSIVE FilterLoop(_, _, _, _)
FilterLoop(wps, i, radius, acc) ==
    IF i > Len(wps) THEN acc
    ELSE LET match_found ==
                 ScanOthers(waypoint_location_tuple(wps[i]),
                            SubSeq(wps, i + 1, Len(wps)), 1, radius)
         IN  FilterLoop(wps, i + 1, radius,
                 IF match_found
                 THEN [acc EXCEPT !.matches = @ + 1]
                 ELSE [acc EXCEPT !.filtered_waypoints = Append(@, wps[i])])

\* The radius pass on a list whose waypoints all have a location.
RadiusFilter(wps, radius) ==
    LET r == FilterLoop(wps, 1, radius,
                        [filtered_waypoints |-> <<>>, matches |-> 0])
    IN  IF r.matches # 0 THEN r.filtered_waypoints ELSE wps

BoxFilter(wps, bound1, bound2) ==
    SelectSeq(wps, LAMBDA waypoint :
        waypoint_in_box(waypoint_location_tuple(waypoint), bound1, bound2))

RadialSort(wps, center) ==
    list_sort(wps, [m \in 1 .. Len(wps) |->
        waypoint_distance_sq(center, waypoint_location_tuple(wps[m]))])

NameSort(wps) == list_sort(wps, [m \in 1 .. Len(wps) |-> wps[m].name])

\* args.filter_radius != 0: a list never equals a number.
NotZero(value) == value.kind = "list" \/ value.val[1] # 0

\* ---------------------------------------------------------- command line
Opts == {"input", "output", "verbose", "filter_radius", "filter_box",
         "sort_radial", "sort_alphanumeric", "invert_sort"}

\* A token of the command line: the option is absent, is given with a value
\* argparse rejects (wrong count of values, a value its type= cannot convert,
\* a path FileType cannot open), or is given with a value it accepts.
Absent == [given |-> FALSE]
Bad == [given |-> TRUE, ok |-> FALSE]
Tok(v) == [given |-> TRUE, ok |-> TRUE, val |-> v]

\* A command line: the tokens of --input, --output, --verbose, --filter-radius,
\* --filter-box, --sort-radial, --sort-alphanumeric, --invert-sort.
Cmd(i, o, v, r, b, s, a, n) ==
    [input |-> i, output |-> o, verbose |-> v, filter_radius |-> r,
     filter_box |-> b, sort_radial |-> s, sort_alphanumeric |-> a,
     invert_sort |-> n]

Flag == {Absent, Tok(TRUE)}
OneFile == Tok(1)
Out == Tok("wt")
Origin == <<0, 0, 0>>
UnitX == <<1, 0, 0>>

\* Command lines of every shape, accepted or not, with one value per option.
ParseCmds ==
    {Cmd(i, o, Absent, r, b, s, a, n) :
        i \in {Absent, Bad, OneFile}, o \in {Absent, Bad, Out},
        r \in {Absent, Bad, Tok(2)},
        b \in {Absent, Bad, Tok(Origin \o UnitX)},
        s \in {Absent, Bad, Tok(UnitX)}, a \in Flag, n \in Flag}

\* One pass, every value of its option.
RadiusCmds ==
    {Cmd(OneFile, Out, Absent, Tok(h), Absent, Absent, Absent, Absent) :
        h \in 0 .. MaxRadiusHalves}
VerboseCmds ==
    {Cmd(OneFile, Out, Tok(TRUE), r, Absent, Absent, Absent, Absent) :
        r \in {Absent, Tok(2)}}
BoxCmds ==
    {Cmd(OneFile, Out, Absent, Absent, Tok(b1 \o b2), Absent, Absent, Absent) :
        b1 \in Location, b2 \in Location}
RadialCmds ==
    {Cmd(OneFile, Out, Absent, Absent, Absent, Tok(c), Absent, Absent) :
        c \in Location}

\* Several input files.
MultiCmds ==
    {Cmd(Tok(k), Out, Absent, r, Absent, Absent, a, n) :
        k \in 2 .. MaxFiles, r \in {Absent, Tok(2)}, a \in Flag, n \in Flag}

CmdLines ==
    ParseCmds \cup RadiusCmds \cup VerboseCmds \cup BoxCmds \cup RadialCmds
        \cup MultiCmds

\* The namespace before parsing: the default= of each add_argument.
Defaults ==
    [input |-> 0, output |-> FALSE, verbose |-> FALSE,
     filter_radius |-> [kind |-> "int", val |-> <<0>>],
     filter_box |-> None, sort_radial |-> None,
     sort_alphanumeric |-> FALSE, invert_sort |-> FALSE]

\* What an accepted token stores: nargs=1 stores a list of one float.
Stored(o, v) ==
    IF o = "filter_radius" THEN [kind |-> "list", val |-> <<v>>]
    ELSE IF o = "output" THEN TRUE
    ELSE v

\* ------------------------------------------------------------ input files
\* What json.load returns for a file, or how it fails: an array, an object
\* (list.extend takes its keys, which are strings), any other value
\* (extend raises TypeError), or text that is not JSON.
Array(elems) == [kind |-> "array", elems |-> elems]
Key == [key |-> 1]
Malformed == [kind |-> "malformed"]
Scalar == [kind |-> "scalar"]
Object == [kind |-> "object", elems |-> <<Key>>]

NameAt(i) == ((i - 1) % MaxName) + 1
LocAt(i) == <<(i - 1) % (MaxCoord + 1), 0, 0>>

\* Arrays of at most n waypoints: every choice of locations, or every choice
\* of names, the other key following the position.
LocVaried(n) ==
    UNION {{[i \in 1 .. k |-> [name |-> NameAt(i), location |-> ls[i]]] :
               ls \in [1 .. k -> Location]} : k \in 0 .. n}
NameVaried(n) ==
    UNION {{[i \in 1 .. k |-> [name |-> ns[i], location |-> LocAt(i)]] :
               ns \in [1 .. k -> Names]} : k \in 0 .. n}
Arrays(n) == {Array(e) : e \in LocVaried(n) \cup NameVaried(n)}

Complete == [name |-> 1, location |-> Origin]
Other == [name |-> 2, location |-> UnitX]
NoLocation == [name |-> 1]
NoName == [location |-> Origin]

\* Files the loader or a pass fails on.
ErrorDocs ==
    {Malformed, Scalar, Object, Array(<<NoLocation>>), Array(<<NoName>>),
     Array(<<Complete, NoLocation>>), Array(<<NoName, Other>>)}

TinyDocs ==
    {Array(<<>>), Array(<<Complete>>), Array(<<Other>>),
     Array(<<Complete, Other>>), Array(<<Other, Complete>>),
     Array(<<Other, Other>>), Malformed, Array(<<NoName>>)}

\* The files a run may meet: short ones when it has several.
DocsFor(a) == IF a.input > 1 THEN TinyDocs ELSE Arrays(MaxLen) \cup ErrorDocs

Iterable(doc) == doc.kind \in {"array", "object"}

\* ---------------------------------------------------------------- the run
\* Faulty variants: the box filter before the radius pass; the write before the
\* name sort.
PipelineBoxFirst ==
    <<"load", "filter_box", "filter_radius", "sort_radial",
      "sort_alphanumeric", "invert_sort", "write", "done">>
PipelineWriteEarly ==
    <<"load", "filter_radius", "filter_box", "sort_radial", "write",
      "sort_alphanumeric", "invert_sort", "done">>

\* The script's statements in order.
Pipeline ==
    <<"load", "filter_radius", "filter_box", "sort_radial",
      "sort_alphanumeric", "invert_sort", "write", "done">>

Following(stage) ==
    Pipeline[(CHOOSE m \in 1 .. Len(Pipeline) : Pipeline[m] = stage) + 1]

AllHaveLocation(wps) == \A m \in 1 .. Len(wps) : HasLocation(wps[m])
AllHaveName(wps) == \A m \in 1 .. Len(wps) : HasName(wps[m])

Init ==
    /\ cmdline \in CmdLines
    /\ pending = {o \in Opts : cmdline[o].given}
    /\ args = Defaults
    /\ pc = "parse_args"
    /\ inputOpened = 0
    /\ inputRead = 0
    /\ outputFile = "untouched"
    /\ outputWrites = 0
    /\ dumped = <<>>
    /\ waypoints = <<>>
    /\ files = <<>>
    /\ before = <<>>

\* parse_args takes the options in command-line order (any order here).  A
\* rejected token ends the run with the usage text, exit status 2.  FileType
\* opens its file when its token is converted: 'wt' creates or truncates.
ConsumeOption(o) ==
    /\ pc = "parse_args"
    /\ o \in pending
    /\ pending' = pending \ {o}
    /\ IF cmdline[o].ok
       THEN /\ args' = [args EXCEPT ![o] = Stored(o, cmdline[o].val)]
            /\ inputOpened' = IF o = "input" THEN cmdline[o].val ELSE inputOpened
            /\ outputFile' = IF o = "output" THEN "truncated" ELSE outputFile
            /\ pc' = pc
       ELSE /\ pc' = "usage_error"
            /\ UNCHANGED <<args, inputOpened, outputFile>>
    /\ UNCHANGED <<cmdline, inputRead, outputWrites, dumped, waypoints,
                   files, before>>

\* After the last token: required=True options that were not given.
FinishParse ==
    /\ pc = "parse_args"
    /\ pending = {}
    /\ pc' = IF cmdline["input"].given /\ cmdline["output"].given
             THEN Pipeline[1] ELSE "usage_error"
    /\ UNCHANGED <<cmdline, pending, args, inputOpened, inputRead, outputFile,
                   outputWrites, dumped, waypoints, files, before>>

\* Faulty variant: the new file's waypoints go in front.
ExtendFront(wps, doc) == doc.elems \o wps

\* waypoints.extend(document)
Extend(wps, doc) == wps \o doc.elems

\* One turn of "for file in args.input: waypoints.extend(json.load(file))".
Load ==
    /\ pc = "load"
    /\ \E doc \in DocsFor(args) :
        /\ files' = Append(files, doc)
        /\ inputRead' = inputRead + 1
        /\ IF Iterable(doc)
           THEN /\ waypoints' = Extend(waypoints, doc)
                /\ pc' = IF inputRead' = args.input THEN Following(pc) ELSE pc
           ELSE /\ pc' = "aborted"
                /\ UNCHANGED waypoints
    /\ UNCHANGED <<cmdline, pending, args, inputOpened, outputFile,
                   outputWrites, dumped, before>>

\* A pass: skipped when its option is off; an uncaught KeyError or TypeError
\* ends the run; otherwise waypoints is rebound to the result.
Pass(stage, on, fails, result) ==
    /\ pc = stage
    /\ IF on /\ fails
       THEN /\ pc' = "aborted"
            /\ UNCHANGED <<waypoints, before>>
       ELSE /\ pc' = Following(stage)
            /\ before' = waypoints
            /\ waypoints' = IF on THEN result ELSE waypoints
    /\ UNCHANGED <<cmdline, pending, args, inputOpened, inputRead, outputFile,
                   outputWrites, dumped, files>>

RadiusFiltering ==
    Pass("filter_radius", NotZero(args.filter_radius),
         ~AllHaveLocation(waypoints),
         RadiusFilter(waypoints, args.filter_radius.val[1]))

BoxFiltering ==
    Pass("filter_box", args.filter_box # None, ~AllHaveLocation(waypoints),
         BoxFilter(waypoints, SubSeq(args.filter_box, 1, 3),
                   SubSeq(args.filter_box, 4, 6)))

RadiusSorting ==
    Pass("sort_radial", args.sort_radial # None, ~AllHaveLocation(waypoints),
         RadialSort(waypoints, args.sort_radial))

AlphanumericSorting ==
    Pass("sort_alphanumeric", args.sort_alphanumeric, ~AllHaveName(waypoints),
         NameSort(waypoints))

InvertSort ==
    Pass("invert_sort", args.invert_sort, FALSE, reversed(waypoints))

\* json.dump(waypoints, args.output, indent=2)
WriteOutput ==
    /\ pc = "write"
    /\ dumped' = waypoints
    /\ outputWrites' = outputWrites + 1
    /\ outputFile' = "written"
    /\ pc' = Following(pc)
    /\ UNCHANGED <<cmdline, pending, args, inputOpened, inputRead, waypoints,
                   files, before>>

Next ==
    \/ \E o \in Opts : ConsumeOption(o)
    \/ FinishParse
    \/ Load
    \/ RadiusFiltering
    \/ BoxFiltering
    \/ RadiusSorting
    \/ AlphanumericSorting
    \/ InvertSort
    \/ WriteOutput

Spec == Init /\ [][Next]_vars

\* ------------------------------------------------------------- properties
\* The order of the items of wps whose index is in I.
Pick(wps, I) ==
    [m \in 1 .. Cardinality(I) |->
        wps[CHOOSE i \in I : Cardinality({j \in I : j < i}) = m - 1]]

Indices(wps) == 1 .. Len(wps)

\* Euclidean distance <= halves / 2, on the squares.
Within(w1, w2, halves) ==
    4 * ((w1.location[1] - w2.location[1]) * (w1.location[1] - w2.location[1])
       + (w1.location[2] - w2.location[2]) * (w1.location[2] - w2.location[2])
       + (w1.location[3] - w2.location[3]) * (w1.location[3] - w2.location[3]))
        <= halves * halves

Given(o) == cmdline[o].given
Value(o) == cmdline[o].val

\* The radius pass has just run with the radius of the command line.
RadiusRan == pc = "filter_box" /\ Given("filter_radius")
PositiveRadiusRan == RadiusRan /\ Value("filter_radius") > 0

NoLaterWithin(wps, i, halves) ==
    \A j \in Indices(wps) : j > i => ~Within(wps[i], wps[j], halves)

\* C1: after the radius pass with R > 0, the list is exactly the waypoints
\* of its input that have no later waypoint within R (distance = R counts as
\* within), in their original order.
ThmC1_KeepRule ==
    PositiveRadiusRan =>
        waypoints =
            Pick(before, {i \in Indices(before) :
                            NoLaterWithin(before, i, Value("filter_radius"))})

WitC1_BoundaryDrop ==
    /\ PositiveRadiusRan
    /\ Len(before) = 3
    /\ Len(waypoints) = 2
    /\ \E i \in Indices(before) : \E j \in Indices(before) :
        /\ i < j
        /\ Within(before[i], before[j], Value("filter_radius"))
        /\ ~Within(before[i], before[j], Value("filter_radius") - 1)
        /\ Value("filter_radius") = 2

Clusters(wps, halves) ==
    {S \in SUBSET Indices(wps) :
        /\ Cardinality(S) >= 2
        /\ \A i \in S : \A j \in S : Within(wps[i], wps[j], halves)}

Last(S) == CHOOSE i \in S : \A j \in S : j <= i

\* The sets of indices of its input that the pass may have kept, going by
\* its result (waypoints that are equal cannot be told apart).
KeptSets == {I \in SUBSET Indices(before) : waypoints = Pick(before, I)}

\* C2 as stated: of every set of two or more waypoints pairwise within R,
\* the pass keeps the member of greatest index and drops every other.
CexC2_LastOfClusterKept ==
    PositiveRadiusRan =>
        \E I \in KeptSets :
            \A S \in Clusters(before, Value("filter_radius")) :
                Last(S) \in I /\ (S \ {Last(S)}) \cap I = {}

\* C2 amended: of every set of two or more waypoints pairwise within R, the
\* pass drops every member but the one of greatest index, and keeps that one
\* exactly when no waypoint after it is within R of it.
ThmC2_ClusterCollapse ==
    PositiveRadiusRan =>
        \E I \in KeptSets :
            \A S \in Clusters(before, Value("filter_radius")) :
                /\ Last(S) \in I
                       <=> NoLaterWithin(before, Last(S), Value("filter_radius"))
                /\ (S \ {Last(S)}) \cap I = {}

\* A chain: 1 and 2 are close, 2 and 3 are close, 1 and 3 are not; the last
\* of the cluster {1, 2} is dropped.
WitC2_Chain ==
    /\ PositiveRadiusRan
    /\ Len(before) = 3
    /\ {1, 2} \in Clusters(before, Value("filter_radius"))
    /\ {2, 3} \in Clusters(before, Value("filter_radius"))
    /\ ~Within(before[1], before[3], Value("filter_radius"))
    /\ waypoints = <<before[3]>>

\* C3 as stated: with --filter-radius absent or given as 0, the list the
\* radius pass hands to the box filter is the loaded list.
CexC3_ZeroRadiusNoOp ==
    (/\ pc = "filter_box"
     /\ ~Given("filter_radius") \/ Value("filter_radius") = 0)
        => waypoints = before

\* C10: after the radius pass with R > 0 any two waypoints left are farther
\* than R apart, and the pass run again on its result drops nothing.
ThmC10_SurvivorsApart ==
    PositiveRadiusRan =>
        /\ \A i \in Indices(waypoints) : \A j \in Indices(waypoints) :
               i # j => ~Within(waypoints[i], waypoints[j], Value("filter_radius"))
        /\ RadiusFilter(waypoints, Value("filter_radius")) = waypoints

WitC10_TwoSurvive ==
    /\ PositiveRadiusRan
    /\ Len(before) = 3
    /\ Len(waypoints) = 2
    /\ waypoints[1].location # waypoints[2].location

\* The waypoints of the files read, in file order and in-file order.
RECURSIVE Concat(_)
Concat(docs) ==
    IF docs = <<>> THEN <<>> ELSE Head(docs).elems \o Concat(Tail(docs))

Corner1 == SubSeq(Value("filter_box"), 1, 3)
Corner2 == SubSeq(Value("filter_box"), 4, 6)

\* The enabled passes applied to wps in the order radius, box, radial, name,
\* invert; with swapped, the box filter goes before the radius pass.
Composition(wps, swapped) ==
    LET radius(l) == IF Given("filter_radius")
                     THEN RadiusFilter(l, Value("filter_radius")) ELSE l
        box(l) == IF Given("filter_box")
                  THEN BoxFilter(l, Corner1, Corner2) ELSE l
        radial(l) == IF Given("sort_radial")
                     THEN RadialSort(l, Value("sort_radial")) ELSE l
        name(l) == IF Given("sort_alphanumeric") THEN NameSort(l) ELSE l
        invert(l) == IF Given("invert_sort") THEN reversed(l) ELSE l
    IN  IF swapped
        THEN invert(name(radial(radius(box(wps)))))
        ELSE invert(name(radial(box(radius(wps)))))

\* C4: whatever the order in which the options were given, what a finished
\* run wrote is the loaded list taken through the enabled passes in the
\* order radius filter, box filter, radial sort, name sort, inversion.
ThmC4_FixedOrder ==
    pc = "done" => dumped = Composition(Concat(files), FALSE)

WitC4_OrderMatters ==
    /\ pc = "done"
    /\ \A o \in Opts \ {"verbose"} : Given(o)
    /\ dumped # Composition(Concat(files), TRUE)

Between(v, a, b) == (a <= v /\ v <= b) \/ (b <= v /\ v <= a)

InBox(w, c1, c2) == \A k \in 1 .. 3 : Between(w.location[k], c1[k], c2[k])

\* The corners with their values exchanged on the axes in A.
Swapped(c1, c2, A) ==
    <<[k \in 1 .. 3 |-> IF k \in A THEN c2[k] ELSE c1[k]],
      [k \in 1 .. 3 |-> IF k \in A THEN c1[k] ELSE c2[k]]>>

BoxRan == pc = "sort_radial" /\ Given("filter_box")

\* C5: after the box filter the list is exactly the waypoints of its input
\* whose x, y and z each lie between the two corners' values, bounds
\* included, in their original order; exchanging the corners on any axes
\* gives the same list, and so does filtering the result again.
ThmC5_BoxFilter ==
    BoxRan =>
        /\ waypoints =
               Pick(before, {i \in Indices(before) :
                               InBox(before[i], Corner1, Corner2)})
        /\ \A A \in SUBSET (1 .. 3) :
               BoxFilter(before, Swapped(Corner1, Corner2, A)[1],
                         Swapped(Corner1, Corner2, A)[2]) = waypoints
        /\ BoxFilter(waypoints, Corner1, Corner2) = waypoints

WitC5_MixedCorners ==
    /\ BoxRan
    /\ Corner1[1] > Corner2[1]
    /\ Corner1[2] < Corner2[2]
    /\ Len(waypoints) > 0
    /\ Len(waypoints) < Len(before)

\* C6: a run that aborted on a file or on the data (or exited in parse_args
\* on a file it could not open) has written nothing to the output; the
\* output is written at most once, only by a run that has loaded every file
\* and gone through every pass, and every such run writes it.
ThmC6_NoPartialOutput ==
    /\ pc \in {"aborted", "usage_error"} =>
           outputWrites = 0 /\ dumped = <<>> /\ outputFile # "written"
    /\ outputWrites <= 1
    /\ outputWrites = 1 =>
           pc = "done" /\ inputRead = args.input /\ dumped = waypoints
    /\ pc = "done" => outputWrites = 1

\* A run that loaded and filtered, then aborted in the name sort.
WitC6_AbortInNameSort ==
    /\ pc = "aborted"
    /\ inputRead = args.input
    /\ \A m \in Indices(files) : Iterable(files[m])
    /\ Len(waypoints) > 0
    /\ AllHaveLocation(waypoints)
    /\ ~AllHaveName(waypoints)
    /\ Given("sort_alphanumeric")

\* C7 as stated: when parse_args exits on an argument error, no input file
\* has been opened or read and the output file has not been opened.
CexC7_NoIOBeforeUsageError ==
    pc = "usage_error" =>
        inputOpened = 0 /\ inputRead = 0 /\ outputFile = "untouched"

Perms(n) ==
    {p \in [1 .. n -> 1 .. n] : \A i \in 1 .. n : \A j \in 1 .. n :
                                    p[i] = p[j] => i = j}

\* out is in rearranged by ascending key, equal keys in their order in in.
SortedStably(out, in, KeyOf(_)) ==
    /\ Len(out) = Len(in)
    /\ \E p \in Perms(Len(in)) :
        /\ \A m \in Indices(in) : out[m] = in[p[m]]
        /\ \A m \in Indices(in) : \A n \in Indices(in) :
               m < n => \/ KeyOf(in[p[m]]) < KeyOf(in[p[n]])
                        \/ KeyOf(in[p[m]]) = KeyOf(in[p[n]]) /\ p[m] < p[n]

SqDistance(c, w) ==
    (w.location[1] - c[1]) * (w.location[1] - c[1])
        + (w.location[2] - c[2]) * (w.location[2] - c[2])
        + (w.location[3] - c[3]) * (w.location[3] - c[3])

\* C8: the radial sort and the name sort each leave a permutation of their
\* input in ascending order of distance to the center, resp. of name, with
\* waypoints of equal key in the order they had in the input.
ThmC8_StableSorts ==
    /\ pc = "sort_alphanumeric" /\ Given("sort_radial") =>
           SortedStably(waypoints, before,
                        LAMBDA w : SqDistance(Value("sort_radial"), w))
    /\ pc = "invert_sort" /\ Given("sort_alphanumeric") =>
           SortedStably(waypoints, before, LAMBDA w : w.name)

\* The radial sort moved something and met two different waypoints at the
\* same distance.
WitC8_TieAndReorder ==
    /\ pc = "sort_alphanumeric"
    /\ Given("sort_radial")
    /\ waypoints # before
    /\ \E i \in Indices(before) : \E j \in Indices(before) :
        /\ before[i] # before[j]
        /\ SqDistance(Value("sort_radial"), before[i])
               = SqDistance(Value("sort_radial"), before[j])

Count(w, wps) == Cardinality({m \in Indices(wps) : wps[m] = w})

\* C9: what a finished run wrote holds no waypoint that is not in the input
\* files and none more often than they do; with no filter, sort or inversion
\* given it is the files' waypoints in file order and in-file order.
ThmC9_OutputFromInput ==
    pc = "done" =>
        /\ \A m \in Indices(dumped) :
               Count(dumped[m], dumped) <= Count(dumped[m], Concat(files))
        /\ (\A o \in Opts \ {"input", "output", "verbose"} : ~Given(o))
               => dumped = Concat(files)

WitC9_TwoFiles ==
    /\ pc = "done"
    /\ Len(files) = 2
    /\ \A m \in Indices(files) : Len(files[m].elems) > 0
    /\ files[1] # files[2]
    /\ \A o \in Opts \ {"input", "output", "verbose"} : ~Given(o)

====
